---- MODULE Spec2Model ----
(***************************************************************************)
(* A model of pyramid_views.views.edit: the form-processing and            *)
(* object-mutation pipeline of FormView, CreateView, UpdateView and        *)
(* DeleteView.  One behaviour is one request handled by one view instance. *)
(* A state holds the view's configuration, the request, self.object, the   *)
(* db session, the bound form, the response (or the exception that left    *)
(* the handler) and a log of the calls the handler made, in order.         *)
(***************************************************************************)
EXTENDS Naturals, Sequences, FiniteSets, TLC

VARIABLES view, request, object, session, form, log, response, exc, pc

vars == <<view, request, object, session, form, log, response, exc, pc>>

(***************************************************************************)
(* Bounds and values                                                       *)
(***************************************************************************)

\* Rows the database holds before the request; get_object returns one of them.
MaxStored == 2

\* Python's None, where the other values are strings.
None == "None"

\* A key that a dict (an object's __dict__, request.POST, initial) does not hold.
Missing == "<missing>"

\* The declarative models of tests/models.py the views operate on.
Models == {"Artist", "Author", "Book"}

\* Only Artist defines get_absolute_url.
HasAbsoluteUrl(cls) == cls = "Artist"

\* The fields a form declares: an ordinary text field and a file upload.
Fields == {"name", "photo"}

\* isinstance(field, FileField)
IsFileField(f) == f = "photo"

\* The keys of an object's __dict__.
AttrNames == {"id"} \cup Fields

EmptyDict == [a \in AttrNames |-> Missing]

\* self.object = None
NoObject == [cls |-> None, dict |-> EmptyDict]

\* A dict over the form's field names with no key set; also an empty POST.
NoFields == [f \in Fields |-> Missing]

\* formdata is not passed to the form (GET).
NoFormData == [f \in Fields |-> None]

\* fields = None: the attribute ModelFormMixin.fields at its default.
FieldsNone == {None}

\* The row with primary key i, as get_object returns it.
StoredObject(i) ==
    [cls  |-> IF i % 2 = 1 THEN "Artist" ELSE "Author",
     dict |-> [a \in AttrNames |->
                 CASE a = "id"    -> ToString(i)
                   [] a = "name"  -> "old"
                   [] a = "photo" -> "old.png"]]

\* A success_url template is a sequence of literal parts and %(key)s parts.
Lit(t) == [kind |-> "lit", text |-> t]
Key(k) == [kind |-> "key", text |-> k]

\* success_url = None
NoUrl == << >>

SuccessUrls == {NoUrl, <<Lit("/done")>>, <<Lit("/items/"), Key("id")>>}

\* Explicitly declared form classes: model forms, one with a post_populate hook.
ExplicitForms == {"PlainForm", "HookForm"}

\* The form class as get_form_class returns it.
FormClass(name, model, only) ==
    [name |-> name, model |-> model, only |-> only,
     post_populate |-> (name = "HookForm")]

\* Meta.model of an explicitly declared form class.
MetaModel(name) == "Book"

\* form._fields: the fields the form declares (Meta.only restricts them).
FormFields(fc) == IF fc.only = FieldsNone THEN Fields ELSE fc.only

(***************************************************************************)
(* The views and the requests they receive                                 *)
(***************************************************************************)

ViewDefaults ==
    [kind |-> "FormView", endpoint |-> FALSE, template_name |-> None,
     success_url |-> NoUrl, form_class |-> None, model |-> None,
     query |-> None, fields |-> FieldsNone, partial_updates |-> FALSE,
     always_update |-> {}, initial |-> NoFields, prefix |-> None]

Initials == {NoFields, [NoFields EXCEPT !["name"] = "x"]}

FormViews ==
    { [ViewDefaults EXCEPT !.endpoint = e, !.template_name = t,
                           !.success_url = u, !.form_class = fc, !.initial = i] :
        e \in BOOLEAN, t \in {None, "form.html"}, u \in SuccessUrls,
        fc \in ExplicitForms, i \in Initials }

\* How the form class can be configured: declared explicitly, or left to be
\* synthesized from model / object / query with the allow-list `fields`.
Resolutions ==
    { [form_class |-> fc, model |-> m, query |-> q, fields |-> fl] :
        fc \in {None} \cup ExplicitForms, m \in {None, "Artist", "Author"},
        q \in {None, "Book"}, fl \in {FieldsNone, {"name"}} }

ModelViews(kind) ==
    { [ViewDefaults EXCEPT !.kind = kind, !.endpoint = e, !.template_name = t,
                           !.success_url = u, !.form_class = r.form_class,
                           !.model = r.model, !.query = r.query,
                           !.fields = r.fields, !.initial = i] :
        e \in BOOLEAN, t \in {None, "form.html"}, u \in SuccessUrls,
        r \in {x \in Resolutions : x.form_class = None \/ x.fields = FieldsNone},
        i \in Initials }

\* partial_updates and always_update are attributes of update views alone.
UpdateViews ==
    { [v EXCEPT !.partial_updates = p, !.always_update = a] :
        v \in ModelViews("UpdateView"), p \in BOOLEAN,
        a \in {{}, {"photo"}, {"name", "photo"}} }

DeleteViews ==
    { [ViewDefaults EXCEPT !.kind = "DeleteView", !.endpoint = e,
                           !.template_name = t, !.success_url = u] :
        e \in BOOLEAN, t \in {None, "form.html"}, u \in SuccessUrls }

\* request.POST of a submission: each field absent or submitted; an empty
\* string for the file field is an empty upload.
Submissions ==
    { [name |-> n, photo |-> p] :
        n \in {Missing, "new"}, p \in {Missing, "", "new.png"} }

Request(m, post) == [method |-> m, POST |-> post]

\* GET requests: any view of the three form kinds, nothing submitted.
GetCases ==
    { <<v, Request("GET", NoFields)>> :
        v \in {x \in FormViews \cup ModelViews("CreateView") \cup ModelViews("UpdateView") :
                 x.success_url = NoUrl} }

\* POST and PUT requests carrying a submission.
PostCases ==
    { <<v, Request(m, d)>> :
        v \in {x \in FormViews \cup ModelViews("CreateView") \cup UpdateViews :
                 x.template_name = None /\ x.initial = NoFields},
        m \in {"POST", "PUT"}, d \in Submissions }

\* DELETE requests, and POST as its alias, to a delete view.
DeleteCases ==
    { <<v, Request(m, NoFields)>> : v \in DeleteViews, m \in {"DELETE", "POST"} }

Cases == GetCases \cup PostCases \cup DeleteCases

\* The db session: is self.object pending (added, not flushed), the primary
\* keys of the rows, and the rows marked for deletion.
NewSession ==
    [new |-> FALSE, rows |-> {ToString(i) : i \in 1..MaxStored}, deleted |-> {}]

\* form.errors of a form without errors.
NoErrors == [f \in Fields |-> << >>]

\* No form has been constructed.
NoForm ==
    [cls |-> FormClass(None, None, FieldsNone), data |-> NoFields, prefix |-> None,
     obj |-> NoObject, instance |-> NoObject, formdata |-> NoFormData,
     errors |-> NoErrors]

\* A response body that is a string.
Text(t) == [text |-> t]

\* The handler has returned nothing (yet).
NoResponse ==
    [status |-> 0, kind |-> None, location |-> << >>, body |-> Text(""),
     form |-> NoForm]

Init ==
    /\ \E c \in Cases : view = c[1] /\ request = c[2]
    /\ object = NoObject
    /\ session = NewSession
    /\ form = NoForm
    /\ log = << >>
    /\ response = NoResponse
    /\ exc = None
    /\ pc = "start"

(***************************************************************************)
(* The handler's working state and the collaborators it calls              *)
(***************************************************************************)

\* The mutable part of a state, threaded through the calls of a handler.
Self ==
    [object |-> object, session |-> session, form |-> form, log |-> log,
     response |-> response, exc |-> exc]

\* What get_object and form.validate answer in this request: the primary key
\* the URL names, and the fields validation rejects (none: the form is valid).
Externals == { [pk |-> i, bad |-> b] : i \in 1..MaxStored, b \in {{}, {"name"}} }

Ev(op, arg) == [op |-> op, arg |-> arg]

\* The handler made the call `op`.
Called(st, op, arg) == [st EXCEPT !.log = Append(@, Ev(op, arg))]

\* The exception e leaves the handler.
Raise(st, e) == [st EXCEPT !.exc = e]

\* The handler returns the response r.
Return(st, r) == Called([st EXCEPT !.response = r], "response", r.kind)

\* httpexceptions.HTTPFound(url)
HTTPFound(url) ==
    [status |-> 302, kind |-> "HTTPFound", location |-> url, body |-> Text(""),
     form |-> NoForm]

\* Response('')
EmptyResponse ==
    [status |-> 200, kind |-> "Response", location |-> << >>, body |-> Text(""),
     form |-> NoForm]

\* httpexceptions.HTTPNotImplemented()
HTTPNotImplemented ==
    [status |-> 501, kind |-> "HTTPNotImplemented", location |-> << >>,
     body |-> Text(""), form |-> NoForm]

\* json.dumps({'errors': form.errors}): an object whose one key, "errors",
\* maps each field that has errors to the list of its messages.
JsonErrors(errors) ==
    [errors |-> [f \in {g \in Fields : errors[g] # << >>} |-> errors[f]]]

\* httpexceptions.HTTPBadRequest() with response.body set to the errors.
HTTPBadRequest(fm) ==
    [status |-> 400, kind |-> "HTTPBadRequest", location |-> << >>,
     body |-> JsonErrors(fm.errors), form |-> NoForm]

\* render_to_response(get_context_data(form=form)): the rendered form.
render_to_response(fm) ==
    [status |-> 200, kind |-> "TemplateResponse", location |-> << >>,
     body |-> Text("rendered"), form |-> fm]

\* SingleObjectMixin.get_object: the stored row the URL names.
get_object(ext) == StoredObject(ext.pk)

\* get_model_from_obj(self.get_query()): the model of the configured query,
\* a configuration error when there is none.
get_model_from_query ==
    IF view.query # None
      THEN [exc |-> None, model |-> view.query]
      ELSE [exc |-> "ImproperlyConfigured", model |-> None]

\* field.data of a bound form: the submitted value; without one a text field
\* of a submitted form is blank, and otherwise the value comes from obj, then
\* from the initial data.
FieldData(fm, f) ==
    IF fm.formdata # NoFormData /\ fm.formdata[f] # Missing THEN fm.formdata[f]
    ELSE IF fm.formdata # NoFormData /\ ~IsFileField(f) THEN ""
    ELSE IF fm.obj # NoObject /\ fm.obj.dict[f] # Missing THEN fm.obj.dict[f]
    ELSE IF fm.data[f] # Missing THEN fm.data[f]
    ELSE None

\* form.validate(): records form.errors.
validate(fm, ext) ==
    [fm EXCEPT !.errors =
        [f \in Fields |-> IF f \in ext.bad \cap FormFields(fm.cls)
                            THEN <<"This field is required.">> ELSE << >>]]

\* field.populate_obj(obj, name): setattr(obj, name, field.data)
field_populate_obj(fm, obj, name) ==
    [obj EXCEPT !.dict[name] = FieldData(fm, name)]

\* The order in which the loops below visit the fields.
FieldOrder == <<"name", "photo">>

\* The fields of S, in FieldOrder.
InOrder(S) == SelectSeq(FieldOrder, LAMBDA f : f \in S)

\* One setattr event per field of S.
SetEvents(S) == [i \in 1..Len(InOrder(S)) |-> Ev("setattr", InOrder(S)[i])]

\* form.populate_obj(obj): every field of the form populates the object.
form_populate_obj(st) ==
    [st EXCEPT
       !.object = [@ EXCEPT !.dict =
                     [a \in AttrNames |->
                        IF a \in FormFields(st.form.cls)
                          THEN FieldData(st.form, a) ELSE st.object.dict[a]]],
       !.log = @ \o SetEvents(FormFields(st.form.cls))]

\* db_session.add(obj): a transient object becomes pending; a persistent one
\* is in the session already.
session_add(st) ==
    Called([st EXCEPT !.session.new = (@ \/ st.object.dict["id"] = Missing)],
           "add", st.object.cls)

\* db_session.flush(): a pending object is inserted and gets its primary key.
session_flush(st) ==
    LET id == ToString(MaxStored + 1)
        s1 == IF st.session.new
                THEN [st EXCEPT !.object.dict["id"] = id,
                                !.session.rows = @ \cup {id},
                                !.session.new = FALSE]
                ELSE st
    IN Called(s1, "flush", s1.object.dict["id"])

\* db_session.delete(obj): the row is marked for deletion.
session_delete(st) ==
    Called([st EXCEPT !.session.deleted = @ \cup {st.object.dict["id"]}],
           "delete", st.object.dict["id"])

\* Artist.get_absolute_url: reverse('artist_detail', kwargs={'pk': self.id})
get_absolute_url(obj) == <<"/artist/", obj.dict["id"]>>

(***************************************************************************)
(* FormMixin, ModelFormMixin                                               *)
(***************************************************************************)

\* FormMixin.get_initial
get_initial == view.initial

\* FormMixin.get_prefix
get_prefix == view.prefix

\* FormMixin.get_form_class
FormMixin_get_form_class ==
    [exc |-> None,
     cls |-> FormClass(view.form_class, MetaModel(view.form_class), FieldsNone)]

\* Faulty variant of ModelFormMixin.get_form_class: the query is consulted
\* before the object.
ModelFormMixin_get_form_class_query_first(obj) ==
    IF view.form_class # None
      THEN FormMixin_get_form_class
      ELSE LET found == IF view.model # None
                          THEN [exc |-> None, model |-> view.model]
                        ELSE IF view.query # None
                          THEN get_model_from_query
                        ELSE IF obj # NoObject
                          THEN [exc |-> None, model |-> obj.cls]
                        ELSE get_model_from_query
           IN IF found.exc # None
                THEN [exc |-> found.exc, cls |-> NoForm.cls]
                ELSE [exc |-> None,
                      cls |-> FormClass("ModelFormWithModel", found.model,
                                        view.fields)]

\* ModelFormMixin.get_form_class: the explicit class, or one synthesized for
\* the model, the object's class, or the query's model, in that order.
ModelFormMixin_get_form_class(obj) ==
    IF view.form_class # None
      THEN FormMixin_get_form_class
      ELSE LET found == IF view.model # None
                          THEN [exc |-> None, model |-> view.model]
                        ELSE IF obj # NoObject
                          THEN [exc |-> None, model |-> obj.cls]
                        ELSE get_model_from_query
           IN IF found.exc # None
                THEN [exc |-> found.exc, cls |-> NoForm.cls]
                ELSE [exc |-> None,
                      cls |-> FormClass("ModelFormWithModel", found.model,
                                        view.fields)]

\* self.get_form_class(), by the class of the view.
get_form_class(obj) ==
    IF view.kind = "FormView" THEN FormMixin_get_form_class
                              ELSE ModelFormMixin_get_form_class(obj)

\* FormMixin.get_form_kwargs; getattr(self, 'object', None) is obj.
FormMixin_get_form_kwargs(obj) ==
    [data     |-> get_initial,
     prefix   |-> IF get_prefix # None THEN get_prefix ELSE "",
     obj      |-> obj,
     instance |-> NoObject,
     formdata |-> IF request.method \in {"POST", "PUT"}
                    THEN request.POST ELSE NoFormData]

\* ModelFormMixin.get_form_kwargs
ModelFormMixin_get_form_kwargs(obj) ==
    [FormMixin_get_form_kwargs(obj) EXCEPT !.instance = obj]

\* self.get_form_kwargs(), by the class of the view; a FormView has no
\* attribute `object`.
get_form_kwargs(obj) ==
    IF view.kind = "FormView" THEN FormMixin_get_form_kwargs(NoObject)
                              ELSE ModelFormMixin_get_form_kwargs(obj)

\* FormMixin.get_form: form_class(**self.get_form_kwargs())
get_form(form_class, obj) ==
    LET kw == get_form_kwargs(obj)
    IN [cls |-> form_class, data |-> kw.data, prefix |-> kw.prefix,
        obj |-> kw.obj, instance |-> kw.instance, formdata |-> kw.formdata,
        errors |-> NoErrors]

\* The text of a template, uninterpolated.
RawUrl(tpl) ==
    [i \in 1..Len(tpl) |->
       IF tpl[i].kind = "lit" THEN tpl[i].text ELSE "%(id)s"]

\* tpl % dict: every %(key)s becomes str(dict[key]); a key that dict does
\* not hold raises KeyError.
Interpolate(tpl, dict) ==
    IF \E i \in 1..Len(tpl) : tpl[i].kind = "key" /\ dict[tpl[i].text] = Missing
      THEN [exc |-> "KeyError", url |-> << >>]
      ELSE [exc |-> None,
            url |-> [i \in 1..Len(tpl) |->
                       IF tpl[i].kind = "lit" THEN tpl[i].text
                                              ELSE dict[tpl[i].text]]]

NoSuccessUrl == [exc |-> "ImproperlyConfigured", url |-> << >>]

\* FormMixin.get_success_url
FormMixin_get_success_url ==
    IF view.success_url # NoUrl
      THEN [exc |-> None, url |-> RawUrl(view.success_url)]
      ELSE NoSuccessUrl

\* Faulty variant of ModelFormMixin.get_success_url: the object's
\* get_absolute_url is not tried.
ModelFormMixin_get_success_url_without_fallback(obj) ==
    IF view.success_url # NoUrl
      THEN Interpolate(view.success_url, obj.dict)
      ELSE NoSuccessUrl

\* ModelFormMixin.get_success_url
ModelFormMixin_get_success_url(obj) ==
    IF view.success_url # NoUrl
      THEN Interpolate(view.success_url, obj.dict)
    ELSE IF HasAbsoluteUrl(obj.cls)
      THEN [exc |-> None, url |-> get_absolute_url(obj)]
    ELSE NoSuccessUrl

\* Variant of DeletionMixin.get_success_url that falls back to the object's
\* get_absolute_url, as ModelFormMixin.get_success_url does.
DeletionMixin_get_success_url_with_fallback(obj) ==
    IF view.success_url # NoUrl
      THEN Interpolate(view.success_url, obj.dict)
    ELSE IF HasAbsoluteUrl(obj.cls)
      THEN [exc |-> None, url |-> get_absolute_url(obj)]
    ELSE NoSuccessUrl

\* DeletionMixin.get_success_url
DeletionMixin_get_success_url(obj) ==
    IF view.success_url # NoUrl
      THEN Interpolate(view.success_url, obj.dict)
      ELSE NoSuccessUrl

\* self.get_success_url(), by the class of the view.
get_success_url(obj) ==
    CASE view.kind = "FormView"   -> FormMixin_get_success_url
      [] view.kind = "DeleteView" -> DeletionMixin_get_success_url(obj)
      [] OTHER                    -> ModelFormMixin_get_success_url(obj)

\* FormMixin.form_valid: redirect to the success URL; when there is none, an
\* endpoint answers with an empty 200 response and any other view re-raises.
FormMixin_form_valid(st) ==
    LET s1 == Called(st, "get_success_url", view.kind)
        r  == get_success_url(s1.object)
    IN IF r.exc = None THEN Return(s1, HTTPFound(r.url))
       ELSE IF r.exc = "ImproperlyConfigured" /\ view.endpoint
         THEN Return(s1, EmptyResponse)
       ELSE Raise(s1, r.exc)

\* Faulty variant of FormMixin.form_invalid: the form is re-rendered for
\* endpoints too.
form_invalid_always_rendering(st) ==
    Return(Called(st, "render_to_response", view.kind),
           render_to_response(st.form))

\* FormMixin.form_invalid
form_invalid(st) ==
    IF ~view.endpoint
      THEN Return(Called(st, "render_to_response", view.kind),
                  render_to_response(st.form))
      ELSE Return(st, HTTPBadRequest(st.form))

\* ModelFormMixin.populate_obj
ModelFormMixin_populate_obj(st) ==
    form_populate_obj(Called(st, "populate_obj", view.kind))

\* Faulty variant of PartialFields: an empty file upload is copied like any
\* submitted field.
PartialFields_copying_empty_uploads(fm) ==
    { name \in FormFields(fm.cls) :
        name \in view.always_update \/ request.POST[name] # Missing }

\* The fields a partial update copies.
PartialFields(fm) ==
    { name \in FormFields(fm.cls) :
        LET in_post_data      == request.POST[name] # Missing
            empty_file_upload == IsFileField(name) /\ FieldData(fm, name) = ""
            always_update     == name \in view.always_update
        IN always_update \/ (in_post_data /\ ~empty_file_upload) }

\* form.post_populate(self.object), when the form has the hook.
PostPopulate(st) ==
    IF st.form.cls.post_populate
      THEN Called(st, "post_populate", st.object.cls) ELSE st

\* Faulty variant of BaseUpdateView.populate_obj: the partial policy is
\* applied whatever partial_updates says.
BaseUpdateView_populate_obj_ignoring_flag(st) ==
    LET s0 == Called(st, "populate_obj", view.kind)
    IN PostPopulate(
         [s0 EXCEPT
            !.object = [@ EXCEPT !.dict =
               [a \in AttrNames |->
                  IF a \in PartialFields(s0.form)
                    THEN field_populate_obj(s0.form, s0.object, a).dict[a]
                    ELSE s0.object.dict[a]]],
            !.log = @ \o SetEvents(PartialFields(s0.form))])

\* BaseUpdateView.populate_obj
BaseUpdateView_populate_obj(st) ==
    LET s0 == Called(st, "populate_obj", view.kind)
        s1 == IF ~view.partial_updates
                THEN form_populate_obj(s0)
                ELSE [s0 EXCEPT
                        !.object = [@ EXCEPT !.dict =
                           [a \in AttrNames |->
                              IF a \in PartialFields(s0.form)
                                THEN field_populate_obj(s0.form, s0.object, a).dict[a]
                                ELSE s0.object.dict[a]]],
                        !.log = @ \o SetEvents(PartialFields(s0.form))]
    IN PostPopulate(s1)

\* self.populate_obj(form), by the class of the view.
populate_obj(st) ==
    IF view.kind = "UpdateView" THEN BaseUpdateView_populate_obj(st)
                                ELSE ModelFormMixin_populate_obj(st)

\* Faulty variant of ModelFormMixin.save: the object is added and not flushed.
save_without_flush(st) == session_add(st)

\* ModelFormMixin.save
save(st) == session_flush(session_add(st))

\* model(): a transient instance with nothing set.
Instantiate(st) ==
    LET model == IF view.model # None THEN view.model
                 ELSE get_form_class(st.object).cls.model
    IN Called([st EXCEPT !.object = [cls |-> model, dict |-> EmptyDict]],
              "instantiate", model)

\* ModelFormMixin.form_valid
ModelFormMixin_form_valid(st) ==
    LET s1 == IF st.object = NoObject THEN Instantiate(st) ELSE st
    IN FormMixin_form_valid(save(populate_obj(s1)))

\* self.form_valid(form), by the class of the view.
form_valid(st) ==
    IF view.kind = "FormView" THEN FormMixin_form_valid(st)
                              ELSE ModelFormMixin_form_valid(st)

(***************************************************************************)
(* ProcessFormView and the create, update and delete views                 *)
(***************************************************************************)

\* ProcessFormView.get
ProcessFormView_get(st) ==
    LET s1 == Called(st, "get_form_class", view.kind)
        fc == get_form_class(s1.object)
    IN IF fc.exc # None THEN Raise(s1, fc.exc)
       ELSE LET s2 == Called([s1 EXCEPT !.form = get_form(fc.cls, s1.object)],
                             "get_form", fc.cls.name)
            IN Return(Called(s2, "render_to_response", view.kind),
                      render_to_response(s2.form))

\* ProcessFormView.post
ProcessFormView_post(st, ext) ==
    LET s1 == Called(st, "get_form_class", view.kind)
        fc == get_form_class(s1.object)
    IN IF fc.exc # None THEN Raise(s1, fc.exc)
       ELSE LET s2 == Called([s1 EXCEPT !.form = get_form(fc.cls, s1.object)],
                             "get_form", fc.cls.name)
                s3 == Called([s2 EXCEPT !.form = validate(@, ext)],
                             "validate", view.kind)
            IN IF s3.form.errors = NoErrors THEN form_valid(s3)
                                            ELSE form_invalid(s3)

\* Faulty variant of FormMixin.get: endpoints without a template render too.
FormMixin_get_without_endpoint_check(st) == ProcessFormView_get(st)

\* FormMixin.get
FormMixin_get(st) ==
    IF view.endpoint /\ view.template_name = None
      THEN Return(st, HTTPNotImplemented)
      ELSE ProcessFormView_get(st)

\* BaseCreateView.get
BaseCreateView_get(st) == FormMixin_get([st EXCEPT !.object = NoObject])

\* BaseCreateView.post
BaseCreateView_post(st, ext) ==
    ProcessFormView_post([st EXCEPT !.object = NoObject], ext)

\* BaseUpdateView.get
BaseUpdateView_get(st, ext) ==
    FormMixin_get(Called([st EXCEPT !.object = get_object(ext)],
                         "get_object", view.kind))

\* BaseUpdateView.post
BaseUpdateView_post(st, ext) ==
    ProcessFormView_post(Called([st EXCEPT !.object = get_object(ext)],
                                "get_object", view.kind), ext)

\* DeletionMixin.do_delete
do_delete(st) == session_delete(st)

\* Faulty variant of DeletionMixin.delete: the success URL is resolved first
\* and the object is deleted only when the handler goes on to respond.
DeletionMixin_delete_resolving_first(st, ext) ==
    LET s1 == Called([st EXCEPT !.object = get_object(ext)],
                     "get_object", view.kind)
        s2 == Called(s1, "get_success_url", view.kind)
        r  == get_success_url(s2.object)
    IN IF r.exc = None THEN Return(do_delete(s2), HTTPFound(r.url))
       ELSE IF r.exc = "ImproperlyConfigured" /\ view.endpoint
         THEN Return(do_delete(s2), EmptyResponse)
       ELSE Raise(s2, r.exc)

\* DeletionMixin.delete
DeletionMixin_delete(st, ext) ==
    LET s1 == do_delete(Called([st EXCEPT !.object = get_object(ext)],
                               "get_object", view.kind))
        s2 == Called(s1, "get_success_url", view.kind)
        r  == get_success_url(s2.object)
    IN IF r.exc = None THEN Return(s2, HTTPFound(r.url))
       ELSE IF r.exc = "ImproperlyConfigured" /\ view.endpoint
         THEN Return(s2, EmptyResponse)
       ELSE Raise(s2, r.exc)

\* DeletionMixin.post
DeletionMixin_post(st, ext) == DeletionMixin_delete(st, ext)

\* view.get(request), by the class of the view.
get(st, ext) ==
    CASE view.kind = "FormView"   -> FormMixin_get(st)
      [] view.kind = "CreateView" -> BaseCreateView_get(st)
      [] view.kind = "UpdateView" -> BaseUpdateView_get(st, ext)

\* view.post(request), by the class of the view.
post(st, ext) ==
    CASE view.kind = "FormView"   -> ProcessFormView_post(st, ext)
      [] view.kind = "CreateView" -> BaseCreateView_post(st, ext)
      [] view.kind = "UpdateView" -> BaseUpdateView_post(st, ext)
      [] view.kind = "DeleteView" -> DeletionMixin_post(st, ext)

\* ProcessFormView.put
put(st, ext) == post(st, ext)

(***************************************************************************)
(* The requests                                                            *)
(***************************************************************************)

\* The handler ran to its end and left the view in the state st.
Handled(st) ==
    /\ object' = st.object
    /\ session' = st.session
    /\ form' = st.form
    /\ log' = st.log
    /\ response' = st.response
    /\ exc' = st.exc
    /\ pc' = "done"
    /\ UNCHANGED <<view, request>>

Get ==
    /\ pc = "start" /\ request.method = "GET"
    /\ \E ext \in Externals : Handled(get(Self, ext))

Post ==
    /\ pc = "start" /\ request.method = "POST"
    /\ \E ext \in Externals : Handled(post(Self, ext))

Put ==
    /\ pc = "start" /\ request.method = "PUT"
    /\ \E ext \in Externals : Handled(put(Self, ext))

Delete ==
    /\ pc = "start" /\ request.method = "DELETE"
    /\ \E ext \in Externals : Handled(DeletionMixin_delete(Self, ext))

Next == Get \/ Post \/ Put \/ Delete

Spec == Init /\ [][Next]_vars

(***************************************************************************)
(* Properties                                                              *)
(***************************************************************************)

Done == pc = "done"

\* The handler made the call `op`.
Has(op) == \E i \in 1..Len(log) : log[i].op = op

\* The handler set the attribute a of the object.
Wrote(a) == \E i \in 1..Len(log) : log[i] = Ev("setattr", a)

\* The calls among S the handler made, in order.
Steps(S) ==
    LET sel == SelectSeq(log, LAMBDA e : e.op \in S)
    IN [i \in 1..Len(sel) |-> sel[i].op]

\* A POST or PUT to a create or update view has been handled.
ModelPostDone ==
    /\ Done
    /\ request.method \in {"POST", "PUT"}
    /\ view.kind \in {"CreateView", "UpdateView"}

\* The submitted form was validated and found valid / invalid.
FormValid == Has("validate") /\ form.errors = NoErrors
FormInvalid == Has("validate") /\ form.errors # NoErrors

\* A partial update selects the declared form field a.
Selected(a) ==
    /\ a \in FormFields(form.cls)
    /\ \/ a \in view.always_update
       \/ /\ request.POST[a] # Missing
          /\ ~(IsFileField(a) /\ FieldData(form, a) = "")

\* C1: after a valid POST/PUT to an update view with partial_updates=True, a
\* declared form field is overwritten with the form's value exactly when it
\* is in always_update, or was submitted and is not an empty file upload;
\* every other attribute of the object keeps the value it had.
C1_PartialUpdate ==
    (ModelPostDone /\ FormValid /\ view.kind = "UpdateView" /\ view.partial_updates)
    => \A a \in AttrNames :
         IF Selected(a)
           THEN Wrote(a) /\ object.dict[a] = FieldData(form, a)
           ELSE ~Wrote(a) /\ object.dict[a] = form.obj.dict[a]

\* A partial update that copies the submitted name and skips the empty upload.
C1_Witness ==
    /\ ModelPostDone /\ FormValid
    /\ view.kind = "UpdateView" /\ view.partial_updates
    /\ view.always_update = {} /\ view.fields = FieldsNone
    /\ request.POST = [name |-> "new", photo |-> ""]
    /\ object.dict["name"] = "new" /\ object.dict["photo"] = "old.png"

\* C2: with partial_updates=False, after a valid POST/PUT to a create or
\* update view every field of the form has been copied onto the object,
\* whatever was submitted and whatever always_update lists.
C2_FullUpdate ==
    (ModelPostDone /\ FormValid /\ ~view.partial_updates)
    => \A f \in FormFields(form.cls) :
         Wrote(f) /\ object.dict[f] = FieldData(form, f)

\* A full update that blanks the name, which was not submitted.
C2_Witness ==
    /\ ModelPostDone /\ FormValid
    /\ view.kind = "UpdateView" /\ ~view.partial_updates
    /\ view.always_update = {"photo"}
    /\ request.POST = [name |-> Missing, photo |-> "new.png"]
    /\ form.obj.dict["name"] = "old"
    /\ object.dict["name"] = "" /\ object.dict["photo"] = "new.png"

\* C3: in the create flow and in the update flow, a valid POST/PUT invokes the
\* form's post_populate hook exactly once, after the fields are populated and
\* before the object is added to the session, and invokes nothing when the
\* form has no hook.
C3_HookInBothFlows ==
    (ModelPostDone /\ FormValid)
    => Steps({"populate_obj", "post_populate", "add"}) =
         IF form.cls.post_populate
           THEN <<"populate_obj", "post_populate", "add">>
           ELSE <<"populate_obj", "add">>

\* The redirect target a template yields for the object.
Target(tpl, obj) ==
    IF tpl = <<Lit("/done")>> THEN <<"/done">> ELSE <<"/items/", obj.dict["id"]>>

\* The outcome of the success policy of create and update views, from the
\* success_url, the object's canonical URL and the endpoint flag.
PolicyOutcome ==
    IF view.success_url # NoUrl
      THEN exc = None /\ response = HTTPFound(Target(view.success_url, object))
    ELSE IF HasAbsoluteUrl(object.cls)
      THEN exc = None /\ response = HTTPFound(<<"/artist/", object.dict["id"]>>)
    ELSE IF view.endpoint
      THEN exc = None /\ response = EmptyResponse
    ELSE exc = "ImproperlyConfigured" /\ response = NoResponse

\* C4: after a valid POST/PUT to a create or update view: a configured
\* success_url redirects to it, interpolated against the object; else the
\* object's canonical URL is the redirect target; else an endpoint answers 200
\* with an empty body; else the configuration error propagates.
C4_SuccessOutcome == (ModelPostDone /\ FormValid) => PolicyOutcome

\* A created Author (no canonical URL), no success_url, endpoint: empty 200.
C4_Witness ==
    /\ ModelPostDone /\ FormValid
    /\ view.kind = "CreateView" /\ view.endpoint /\ view.success_url = NoUrl
    /\ object.cls = "Author"
    /\ response.status = 200 /\ response.body = Text("") /\ exc = None

\* A DELETE, or a POST to a delete view, has been handled.
DeleteDone == Done /\ view.kind = "DeleteView"

SuccessPath ==
    {"instantiate", "populate_obj", "setattr", "post_populate", "add", "flush",
     "get_success_url"}

\* C6: a POST/PUT that fails validation ends in a response and in no
\* exception: the re-rendered form for a view that is no endpoint, a 400 with
\* the JSON body {"errors": field -> messages} for an endpoint; the success
\* path is not entered.
C6_InvalidOutcome ==
    (Done /\ FormInvalid) =>
      /\ exc = None
      /\ IF view.endpoint
           THEN /\ response.status = 400
                /\ response.body =
                     [errors |-> [f \in {"name"} |-> <<"This field is required.">>]]
           ELSE /\ response.status = 200
                /\ response.kind = "TemplateResponse"
                /\ response.form = form
      /\ Steps(SuccessPath) = << >>
      /\ session = NewSession
      /\ object = form.obj

\* An invalid PUT to an update endpoint: 400 with the errors of `name`.
C6_Witness ==
    /\ Done /\ FormInvalid
    /\ view.kind = "UpdateView" /\ view.endpoint /\ request.method = "PUT"
    /\ response.status = 400 /\ response.kind = "HTTPBadRequest"
    /\ object.dict["name"] = "old"

\* A GET to a form, create or update view has been handled.
GetDone == Done /\ request.method = "GET"

\* A GET validates nothing, populates nothing and leaves the session alone.
GetIsReadOnly ==
    /\ ~Has("validate")
    /\ Steps(SuccessPath) = << >>
    /\ session = NewSession

\* The response renders a form bound to the initial data and to no submission.
RendersUnboundForm ==
    /\ exc = None
    /\ response.status = 200
    /\ response.kind = "TemplateResponse"
    /\ response.form = form
    /\ Has("get_form_class") /\ Has("get_form")
    /\ form.data = view.initial
    /\ form.formdata = NoFormData

\* C7 as stated: every GET, whatever the endpoint flag and the template,
\* resolves the form class, binds an unbound form and answers 200 with the
\* rendered form, and never validates, populates or touches the session.
C7_GetAlwaysRenders == GetDone => (RendersUnboundForm /\ GetIsReadOnly)

\* No source yields a model for the form class of a model view.
Unresolvable ==
    /\ view.kind # "FormView"
    /\ view.form_class = None /\ view.model = None /\ view.query = None
    /\ object = NoObject

\* C7, amended: a GET to an endpoint without template_name answers 501 and
\* resolves and binds no form; any other GET resolves the form class and
\* answers 200 with the rendered unbound form, or lets the configuration
\* error propagate when the form class cannot be resolved; no GET validates,
\* populates or touches the session.
C7_GetOutcome ==
    GetDone =>
      /\ GetIsReadOnly
      /\ IF view.endpoint /\ view.template_name = None
           THEN /\ exc = None /\ response = HTTPNotImplemented
                /\ form = NoForm /\ ~Has("get_form_class")
         ELSE IF Unresolvable
           THEN /\ exc = "ImproperlyConfigured" /\ response = NoResponse
                /\ form = NoForm
         ELSE RendersUnboundForm

\* A GET to an update endpoint with a template: the stored object's form,
\* prefilled, is rendered.
C7_Witness ==
    /\ GetDone /\ view.kind = "UpdateView"
    /\ view.endpoint /\ view.template_name = "form.html"
    /\ view.initial["name"] = "x"
    /\ response.status = 200 /\ response.form.obj = object
    /\ object.dict["name"] = "old"

\* The steps of the success path C8 orders.
OrderedSteps ==
    {"instantiate", "populate_obj", "add", "flush", "get_success_url", "response"}

\* The object is persisted and has its identifier; a success_url naming the
\* identifier redirects to it.
PersistedBeforeUrl ==
    /\ object.dict["id"] # Missing
    /\ object.dict["id"] \in session.rows /\ ~session.new
    /\ (view.kind = "CreateView" => object.dict["id"] = ToString(MaxStored + 1))
    /\ (view.success_url = <<Lit("/items/"), Key("id")>>
          => exc = None /\ response.location = <<"/items/", object.dict["id"]>>)

\* C8 as stated: every valid POST/PUT to a create or update view instantiates
\* (when there is no object), populates, adds, flushes, resolves the success
\* URL and builds the response, in this order and each once.
C8_AllSixSteps ==
    (ModelPostDone /\ FormValid) =>
      /\ Steps(OrderedSteps) =
           (IF view.kind = "CreateView" THEN <<"instantiate">> ELSE << >>)
           \o <<"populate_obj", "add", "flush", "get_success_url", "response">>
      /\ PersistedBeforeUrl

\* C8, amended: the steps run in this order, each once, and the response is
\* built last unless the configuration error of the success URL propagates,
\* in which case the handler ends after resolving the URL, with no response.
C8_StepOrder ==
    (ModelPostDone /\ FormValid) =>
      /\ Steps(OrderedSteps) =
           (IF view.kind = "CreateView" THEN <<"instantiate">> ELSE << >>)
           \o <<"populate_obj", "add", "flush", "get_success_url">>
           \o (IF exc = None THEN <<"response">> ELSE << >>)
      /\ (exc # None => exc = "ImproperlyConfigured" /\ response = NoResponse)
      /\ PersistedBeforeUrl

\* A created object redirected to the URL of its generated identifier.
C8_Witness ==
    /\ ModelPostDone /\ FormValid /\ view.kind = "CreateView"
    /\ view.success_url = <<Lit("/items/"), Key("id")>>
    /\ response.status = 302
    /\ response.location = <<"/items/", ToString(MaxStored + 1)>>
    /\ ToString(MaxStored + 1) \in session.rows

\* The class of the object the view had resolved when it resolved the form.
ResolvedObjectClass == IF view.kind = "UpdateView" THEN object.cls ELSE None

\* The form class synthesized for the model m.
Synthesized(m) ==
    [name |-> "ModelFormWithModel", model |-> m, only |-> view.fields,
     post_populate |-> FALSE]

\* C9: a create or update view that resolves its form class takes the explicit
\* form_class when there is one; else it synthesizes a class with the
\* configured fields for the configured model, else for the class of the
\* resolved object, else for the model of the query; with none of them the
\* configuration error propagates.
C9_FormClassPriority ==
    (Done /\ Has("get_form_class") /\ view.kind \in {"CreateView", "UpdateView"}) =>
      IF view.form_class # None
        THEN form.cls = [name |-> view.form_class, model |-> "Book",
                         only |-> FieldsNone,
                         post_populate |-> (view.form_class = "HookForm")]
      ELSE IF view.model # None THEN form.cls = Synthesized(view.model)
      ELSE IF ResolvedObjectClass # None
        THEN form.cls = Synthesized(ResolvedObjectClass)
      ELSE IF view.query # None THEN form.cls = Synthesized(view.query)
      ELSE exc = "ImproperlyConfigured" /\ form = NoForm /\ response = NoResponse

\* An update view without form_class and model, with a query of Books,
\* working on an Author: the form is synthesized for Author.
C9_Witness ==
    /\ Done /\ view.kind = "UpdateView" /\ request.method = "GET"
    /\ view.form_class = None /\ view.model = None /\ view.query = "Book"
    /\ view.fields = {"name"}
    /\ object.cls = "Author"
    /\ form.cls.model = "Author" /\ form.cls.only = {"name"}

\* C10: the session is changed before the success URL is resolved and stays
\* changed when resolution fails: a deletion has marked the object deleted,
\* a valid create or update has populated, added and flushed it, also when
\* the request ends in the propagated configuration error.
C10_MutationBeforeUrl ==
    (Done /\ Has("get_success_url")) =>
      CASE view.kind = "DeleteView" ->
             /\ Steps({"delete", "get_success_url"}) = <<"delete", "get_success_url">>
             /\ object.dict["id"] \in session.deleted
        [] view.kind \in {"CreateView", "UpdateView"} ->
             /\ Steps({"populate_obj", "add", "flush", "get_success_url"}) =
                  <<"populate_obj", "add", "flush", "get_success_url">>
             /\ object.dict["id"] \in session.rows /\ ~session.new
             /\ \A f \in FormFields(form.cls) :
                  Wrote(f) => object.dict[f] = FieldData(form, f)
        [] OTHER -> session = NewSession

\* A deletion that ends in the configuration error, the object deleted.
C10_Witness ==
    /\ Done /\ view.kind = "DeleteView"
    /\ exc = "ImproperlyConfigured" /\ response = NoResponse
    /\ object.dict["id"] \in session.deleted

\* A create that ends in the configuration error, the object saved.
C10_WitnessSaved ==
    /\ ModelPostDone /\ view.kind = "CreateView"
    /\ exc = "ImproperlyConfigured" /\ Has("get_success_url")
    /\ object.dict["id"] \in session.rows

====
